---- MODULE Spec2Model ----
(***************************************************************************)
(* Model of tkfmRecruitment: the tag extractor (image_ocr.py), the         *)
(* recruitment query engine (tkfmtools.py) and the handle_image            *)
(* orchestrator (main.py).                                                 *)
(*                                                                         *)
(* Strings of the program are written as ASCII glosses of the originals:   *)
(*   "RecruitConditions" = 招募條件   "SelectUpToThree" = 最多選擇三項     *)
(*   "Soidier" = 土兵 (the OCR misreading of 士兵 "Soldier")               *)
(*   "TwoChangesLeftToday" = 本日剩餘更換2次                               *)
(* and the tags of TAGS as listed next to their definition.                *)
(***************************************************************************)
EXTENDS Integers, Sequences, FiniteSets, TLC

VARIABLES
    results,         \* image_ocr.py:86  result_words, the OCR words in reading order
    fs,              \* the correction resource ./data/word_mappings.yaml on disk
    word_mappings,   \* image_ocr.py:101  what yaml_to_dict returned to img_to_tags
    extracted_tags,  \* main.py:88 / image_ocr.py:112  the list img_to_tags returned
    pc,              \* position of the call under way
    status,          \* main.py:66  the status message reply_message as the chat shows it
    playwright,      \* tkfmtools.py:20  the sync_playwright() context manager
    browser,         \* tkfmtools.py:23
    context,         \* tkfmtools.py:24
    page,            \* tkfmtools.py:25
    clicked,         \* tkfmtools.py:55  the tags clicked so far, in click order
    pending,         \* how the try block of recruitment_query is being left
    timeout_step,    \* the protocol step that raised a timeout, 0 when none did
    error_at,        \* the call of recruitment_query that raised another error
    trace,           \* the protocol steps of recruitment_query started so far
    query_calls,     \* main.py:101  the argument of every recruitment_query call
    pdf_bytes_io,    \* main.py:101 / tkfmtools.py:74  the document buffer
    sent,            \* main.py:114  the buffer as each reply_document attempt got it
    file_path,       \* image_ocr.py:42  the directory part of yaml_to_dict's argument
    loads,           \* what each finished yaml_to_dict call met, returned and left
    lpc,             \* image_ocr.py:50-65  where each concurrent yaml_to_dict call is
    lret             \* what each concurrent yaml_to_dict call returned

session == <<playwright, browser, context, page>>
extractor == <<results, fs, word_mappings, extracted_tags>>
query == <<session, clicked, pending, timeout_step, error_at, trace, query_calls>>
loader == <<file_path, loads, lpc, lret>>
vars == <<extractor, pc, status, query, pdf_bytes_io, sent, loader>>

-----------------------------------------------------------------------------
(* Bounds of the model *)

\* longest OCR result the extractor alone is run on
MaxLen == 10

\* longest OCR result a handle_image run is given
MaxScreen == 6

\* most reply_document attempts of one run that time out
MaxTimedOut == 2

\* length of the document in bytes
DocLen == 2

-----------------------------------------------------------------------------
(* image_ocr.py: vocabulary *)

\* 火屬性 水屬性 風屬性 光屬性 闇屬性
TagsAttribute == {"Fire", "Water", "Wind", "Light", "Dark"}
\* 攻擊者 守護者 治療者 妨礙者 輔助者
TagsRole == {"Attacker", "Guardian", "Healer", "Obstructer", "Supporter"}
\* 人類 魔族 亞人
TagsRace == {"Human", "Demon", "Demihuman"}
\* 小體型 中體型
TagsBody == {"SmallBody", "MediumBody"}
\* 貧乳 美乳 巨乳
TagsBust == {"FlatBust", "FineBust", "LargeBust"}
\* 士兵 菁英 領袖
TagsRank == {"Soldier", "Elite", "Leader"}
\* 輸出 保護 防禦 回復 干擾 支援
TagsEffectA == {"Damage", "Protection", "Defense", "Recovery", "Interference", "Support"}
\* the second line of effects without its last tag
TagsEffectB_WithoutLast == {"Weaken", "Burst", "Survival", "StrongerInBattle", "AreaAttack"}

\* 削弱 爆發力 生存力 越戰越強 群體攻擊 回擊
TagsEffectB == {"Weaken", "Burst", "Survival", "StrongerInBattle", "AreaAttack", "Counter"}

TAGS == TagsAttribute \cup TagsRole \cup TagsRace \cup TagsBody \cup TagsBust
            \cup TagsRank \cup TagsEffectA \cup TagsEffectB

\* the seven groups of tags: 屬性 定位 種族 體型 ㄋㄋ 階級 其他
TagsOther == TagsEffectA \cup TagsEffectB
Categories == {TagsAttribute, TagsRole, TagsRace, TagsBody, TagsBust, TagsRank, TagsOther}

\* the reference word 招募條件
Anchor == "RecruitConditions"

\* result_words[ref_word_idx:ref_word_idx + 8]
WindowSize == 8

-----------------------------------------------------------------------------
(* The correction resource: a text file, modelled as its sequence of lines *)

Comment == [t |-> "comment", k |-> "", v |-> ""]
Blank == [t |-> "blank", k |-> "", v |-> ""]
Entry(key, value) == [t |-> "entry", k |-> key, v |-> value]
Scalar(value) == [t |-> "scalar", k |-> "", v |-> value]
Item(value) == [t |-> "item", k |-> "", v |-> value]
Junk == [t |-> "junk", k |-> "", v |-> ""]

\* nine comment lines, an empty line, and the seed entry 土兵: 士兵
YAML_TEMPLATE ==
    <<Comment, Comment, Comment, Comment, Comment,
      Comment, Comment, Comment, Comment, Blank,
      Entry("Soidier", "Soldier")>>

\* the file as the file system holds it
NoFile == [exists |-> FALSE, readable |-> FALSE, text |-> <<>>]
File(lines) == [exists |-> TRUE, readable |-> TRUE, text |-> lines]
UnreadableFile(lines) == [exists |-> TRUE, readable |-> FALSE, text |-> lines]

\* parsed YAML values
PyNone == [kind |-> "none", map |-> <<>>, items |-> <<>>, str |-> ""]
PyDict(m) == [kind |-> "dict", map |-> m, items |-> <<>>, str |-> ""]
PyList(l) == [kind |-> "list", map |-> <<>>, items |-> l, str |-> ""]
PyStr(s) == [kind |-> "str", map |-> <<>>, items |-> <<>>, str |-> s]
YAMLError == [kind |-> "error", map |-> <<>>, items |-> <<>>, str |-> ""]

\* a dict is a function from its keys to its values; <<>> is the empty dict
EmptyDict == <<>>

RECURSIVE DictOfEntries(_)
\* entries of a block mapping, a later duplicate key replacing an earlier one
DictOfEntries(lines) ==
    IF lines = <<>> THEN EmptyDict
    ELSE LET n == Len(lines)
             rest == DictOfEntries(SubSeq(lines, 1, n - 1))
             last == lines[n]
         IN  [key \in (DOMAIN rest) \cup {last.k} |->
                 IF key = last.k THEN last.v ELSE rest[key]]

IsContent(line) == line.t \notin {"comment", "blank"}

safe_load(text) ==
    LET body == SelectSeq(text, IsContent)
        kinds == {body[i].t : i \in DOMAIN body}
    IN  IF body = <<>> THEN PyNone
        ELSE IF kinds = {"entry"} THEN PyDict(DictOfEntries(body))
        ELSE IF kinds = {"item"} THEN PyList([i \in DOMAIN body |-> body[i].v])
        ELSE IF kinds = {"scalar"} /\ Len(body) = 1 THEN PyStr(body[1].v)
        ELSE YAMLError

\* a load without its `or {}`
Truthy_Always(value) == TRUE

\* Python truth value of a loaded document, for `yaml.safe_load(f) or {}`
Truthy(value) ==
    CASE value.kind = "none" -> FALSE
      [] value.kind = "dict" -> DOMAIN value.map # {}
      [] value.kind = "list" -> value.items # <<>>
      [] value.kind = "str" -> value.str # ""
      [] OTHER -> TRUE

\* os.makedirs(directory, exist_ok=True): "ok" or "raise", and the directory after
makedirs(directory, disk) ==
    IF directory = "" THEN [out |-> "raise", dir |-> disk.dir]
    ELSE IF disk.dir THEN [out |-> "ok", dir |-> TRUE]
    ELSE IF disk.writable THEN [out |-> "ok", dir |-> TRUE]
    ELSE [out |-> "raise", dir |-> FALSE]

\* yaml_to_dict(file_path), file_path split into directory and file name:
\* the value returned and the disk it leaves
yaml_to_dict(directory, disk) ==
    LET md == makedirs(directory, disk)
        created == [dir |-> TRUE, writable |-> disk.writable, file |-> File(YAML_TEMPLATE)]
        afterCreate ==
            IF disk.file.exists THEN [out |-> "ok", disk |-> disk]
            ELSE IF md.out = "raise" THEN [out |-> "raise", disk |-> disk]
            ELSE IF ~disk.writable
                 THEN [out |-> "raise", disk |-> [disk EXCEPT !.dir = md.dir]]
            ELSE [out |-> "ok", disk |-> created]
        loaded == safe_load(afterCreate.disk.file.text)
    IN  IF afterCreate.out = "raise" THEN [ret |-> PyDict(EmptyDict), disk |-> afterCreate.disk]
        ELSE IF ~afterCreate.disk.file.readable
             THEN [ret |-> PyDict(EmptyDict), disk |-> afterCreate.disk]
        ELSE IF loaded.kind = "error" THEN [ret |-> PyDict(EmptyDict), disk |-> afterCreate.disk]
        ELSE IF Truthy(loaded) THEN [ret |-> loaded, disk |-> afterCreate.disk]
        ELSE [ret |-> PyDict(EmptyDict), disk |-> afterCreate.disk]

-----------------------------------------------------------------------------
(* image_ocr.py: img_to_tags *)

\* a search that answers the first position when the word is absent
index_AbsentIsFirst(words, word) ==
    IF \E i \in DOMAIN words : words[i] = word
    THEN CHOOSE i \in DOMAIN words :
            /\ words[i] = word
            /\ \A j \in 1..(i - 1) : words[j] # word
    ELSE IF words = <<>> THEN 0 ELSE 1

\* result_words.index('招募條件'): 0 when absent (ValueError), else the first position
index(words, word) ==
    IF \E i \in DOMAIN words : words[i] = word
    THEN CHOOSE i \in DOMAIN words :
            /\ words[i] = word
            /\ \A j \in 1..(i - 1) : words[j] # word
    ELSE 0

Min(a, b) == IF a < b THEN a ELSE b

\* a get that leaves a word alone when it is already a valid tag
get_KeepValidTag(mapping, word, default) ==
    IF word \in TAGS THEN default
    ELSE IF word \in DOMAIN mapping THEN mapping[word] ELSE default

\* word_mappings.get(word, word)
get(mapping, word, default) ==
    IF word \in DOMAIN mapping THEN mapping[word] ELSE default

IsTag(word) == word \in TAGS

\* the directory part of "./data/word_mappings.yaml"
DataDir == "./data"

\* a slice one word too long
Window_OneMore(words, ref_word_idx) ==
    SubSeq(words, ref_word_idx, Min(ref_word_idx + WindowSize, Len(words)))

\* result_words[ref_word_idx:ref_word_idx + 8], ref_word_idx counted from 1
Window(words, ref_word_idx) ==
    SubSeq(words, ref_word_idx, Min(ref_word_idx + WindowSize - 1, Len(words)))

\* the value of word_mappings before yaml_to_dict is called
NotLoaded == [kind |-> "notloaded", map |-> <<>>, items |-> <<>>, str |-> ""]

\* img_to_tags filtering by the vocabulary before it applies the corrections
img_to_tags_FilterFirst(words, disk) ==
    LET ref_word_idx == index(words, Anchor)
        window == Window(words, ref_word_idx)
        loaded == yaml_to_dict(DataDir, disk)
        mappings == loaded.ret
        kept == SelectSeq(window, IsTag)
    IN  IF ref_word_idx = 0
        THEN [out |-> "return", tags |-> <<>>, mappings |-> NotLoaded, disk |-> disk]
        ELSE IF mappings.kind # "dict"
        THEN [out |-> "raise", tags |-> <<>>, mappings |-> mappings, disk |-> loaded.disk]
        ELSE [out |-> "return",
              tags |-> [i \in DOMAIN kept |-> get(mappings.map, kept[i], kept[i])],
              mappings |-> mappings, disk |-> loaded.disk]

\* img_to_tags loading the correction table before it searches the anchor
img_to_tags_LoadFirst(words, disk) ==
    LET ref_word_idx == index(words, Anchor)
        window == Window(words, ref_word_idx)
        loaded == yaml_to_dict(DataDir, disk)
        mappings == loaded.ret
        mapped == [i \in DOMAIN window |-> get(mappings.map, window[i], window[i])]
    IN  IF ref_word_idx = 0
        THEN [out |-> "return", tags |-> <<>>, mappings |-> mappings, disk |-> loaded.disk]
        ELSE IF mappings.kind # "dict"
        THEN [out |-> "raise", tags |-> <<>>, mappings |-> mappings, disk |-> loaded.disk]
        ELSE [out |-> "return", tags |-> SelectSeq(mapped, IsTag),
              mappings |-> mappings, disk |-> loaded.disk]

\* img_to_tags after reader.readtext: the tags returned, or the exception raised
\* (.get of a value that is no dict), the mapping loaded and the disk it leaves
img_to_tags(words, disk) ==
    LET ref_word_idx == index(words, Anchor)
        window == Window(words, ref_word_idx)
        loaded == yaml_to_dict(DataDir, disk)
        mappings == loaded.ret
        mapped == [i \in DOMAIN window |-> get(mappings.map, window[i], window[i])]
    IN  IF ref_word_idx = 0
        THEN [out |-> "return", tags |-> <<>>, mappings |-> NotLoaded, disk |-> disk]
        ELSE IF mappings.kind # "dict"
        THEN [out |-> "raise", tags |-> <<>>, mappings |-> mappings, disk |-> loaded.disk]
        ELSE [out |-> "return", tags |-> SelectSeq(mapped, IsTag),
              mappings |-> mappings, disk |-> loaded.disk]

-----------------------------------------------------------------------------
(* Inputs *)

SeqsUpTo(S, n) == UNION {[1..k -> S] : k \in 0..n}

\* the words the extractor is exercised on: the anchor, a tag, a misreading
ExtractWords == {Anchor, "Soldier", "Soidier"}

\* the screenshot of image_ocr.py:96
ExampleSpans ==
    <<Anchor, "SelectUpToThree", "MediumBody", "Wind", "Soidier", "Demihuman",
      "Defense", "TwoChangesLeftToday">>

ExtractInputs == SeqsUpTo(ExtractWords, MaxLen) \cup {ExampleSpans}

\* correction files holding a mapping
\* a misreading corrected to the anchor, a valid tag corrected to another tag,
\* and the anchor corrected to a tag
MixedFile ==
    <<Comment, Entry("Soidier", Anchor), Entry("Soldier", "Demihuman"),
      Entry(Anchor, "Soldier")>>

Disk(dir, writable, file) == [dir |-> dir, writable |-> writable, file |-> file]

MappingDisks ==
    {Disk(FALSE, TRUE, NoFile),
     Disk(TRUE, TRUE, File(YAML_TEMPLATE)),
     Disk(TRUE, TRUE, File(MixedFile))}

-----------------------------------------------------------------------------
(* The extractor on its own *)

NoTags == <<"-">>

\* no document: before the query, and the None of a query that timed out
Unset == [kind |-> "unset", content |-> <<>>, pos |-> 0]
None == [kind |-> "none", content |-> <<>>, pos |-> 0]

\* nothing of a handle_image run or a query has happened
Idle ==
    /\ word_mappings = NotLoaded
    /\ extracted_tags = NoTags
    /\ status = "none"
    /\ playwright = "none"
    /\ browser = "none"
    /\ context = "none"
    /\ page = "none"
    /\ clicked = <<>>
    /\ pending = "none"
    /\ timeout_step = 0
    /\ error_at = "none"
    /\ trace = <<>>
    /\ query_calls = <<>>
    /\ pdf_bytes_io = Unset
    /\ sent = <<>>
    /\ loads = <<>>

\* no worker thread is inside yaml_to_dict
NoLoaders == lpc = <<>> /\ lret = <<>>

InitExtract ==
    /\ results \in ExtractInputs
    /\ fs \in MappingDisks
    /\ file_path = DataDir
    /\ Idle
    /\ NoLoaders
    /\ pc = "call"

ExtractCall ==
    /\ pc = "call"
    /\ LET r == img_to_tags(results, fs)
       IN  /\ extracted_tags' = r.tags
           /\ fs' = r.disk
           /\ word_mappings' = r.mappings
           /\ pc' = IF r.out = "raise" THEN "raised" ELSE "returned"
    /\ UNCHANGED <<loader, results, status, query, pdf_bytes_io, sent>>

NextExtract == ExtractCall

SpecExtract == InitExtract /\ [][NextExtract]_vars

-----------------------------------------------------------------------------
(* main.py: handle_image, with tkfmtools.py: recruitment_query run inside it *)

\* the texts of the status message
\* "正在下載圖片... (1/4)"
StatusDownloading == "Downloading image (1/4)"
\* "正在提取圖片中的文字... (2/4)"
StatusExtracting == "Extracting text (2/4)"
\* "正在篩選可行的標籤組合... (3/4)"
StatusQuerying == "Filtering tag combinations (3/4)"
\* "正在傳送結果... (4/4)"
StatusSending == "Sending result (4/4)"
\* "抱歉，無法從圖片中提取文字。請嘗試其他圖片。"
StatusExtractionFailed == "Sorry, could not extract text from the image"
\* "抱歉，標籤組合篩選失敗。請稍後再試。"
StatusQueryFailed == "Sorry, tag combination filtering failed"

\* the OCR results a run is given: every short result over the extractor's
\* words, and the screenshot of the example
HandlerInputs == SeqsUpTo(ExtractWords, MaxScreen) \cup {ExampleSpans}

\* a file holding one plain scalar, and a file holding a block sequence
ScalarFile == <<Comment, Scalar("Soldier")>>
ListFile == <<Item("Soidier"), Item("Soldier")>>
\* a file that is not YAML
CorruptFile == <<Entry("Soidier", "Soldier"), Junk>>
CommentsOnlyFile == <<Comment, Blank>>

\* every state of the correction resource: missing (creatable or not), holding a
\* mapping, unreadable, unparseable, empty, a scalar, a list
Disks ==
    MappingDisks \cup
    {Disk(FALSE, FALSE, NoFile),
     Disk(TRUE, FALSE, NoFile),
     Disk(TRUE, TRUE, UnreadableFile(YAML_TEMPLATE)),
     Disk(TRUE, TRUE, File(CorruptFile)),
     Disk(TRUE, TRUE, File(<<>>)),
     Disk(TRUE, TRUE, File(CommentsOnlyFile)),
     Disk(TRUE, TRUE, File(ScalarFile)),
     Disk(TRUE, TRUE, File(ListFile))}

Init ==
    /\ results \in HandlerInputs
    /\ fs \in Disks
    /\ file_path = DataDir
    /\ Idle
    /\ NoLoaders
    /\ pc = "start"

\* main.py:66  reply_text sends the status message
SendStatus ==
    /\ pc = "start"
    /\ status' = StatusDownloading
    /\ pc' = "download"
    /\ UNCHANGED <<loader, extractor, query, pdf_bytes_io, sent>>

\* main.py:74-82  download the photo, then overwrite the status
Download ==
    /\ pc = "download"
    /\ status' = StatusExtracting
    /\ pc' = "extract"
    /\ UNCHANGED <<loader, extractor, query, pdf_bytes_io, sent>>

\* main.py:85-88  img_to_tags in the worker thread; what it raises leaves handle_image
Extract ==
    /\ pc = "extract"
    /\ LET r == img_to_tags(results, fs)
       IN  /\ fs' = r.disk
           /\ word_mappings' = r.mappings
           /\ extracted_tags' = IF r.out = "raise" THEN extracted_tags ELSE r.tags
           /\ pc' = IF r.out = "raise" THEN "raised" ELSE "gate"
    /\ UNCHANGED <<loader, results, status, query, pdf_bytes_io, sent>>

\* the length recruitment_query is called with
RequiredTags == 5

\* a gate that only refuses too few tags
GateFails_TooFewOnly(tags) == Len(tags) < RequiredTags

\* main.py:90  len(extracted_tags) != 5
GateFails(tags) == Len(tags) # RequiredTags

\* a gate that ends the run without the extraction-failure text
Gate_KeepStatus ==
    /\ pc = "gate"
    /\ IF GateFails(extracted_tags)
       THEN /\ status' = status
            /\ pc' = "done"
       ELSE /\ status' = StatusQuerying
            /\ pc' = "query"
    /\ UNCHANGED <<loader, extractor, query, pdf_bytes_io, sent>>

\* main.py:90-96
Gate ==
    /\ pc = "gate"
    /\ IF GateFails(extracted_tags)
       THEN /\ status' = StatusExtractionFailed
            /\ pc' = "done"
       ELSE /\ status' = StatusQuerying
            /\ pc' = "query"
    /\ UNCHANGED <<loader, extractor, query, pdf_bytes_io, sent>>

\* what a call into the browser can do
Outcomes == {"ok", "timeout", "error"}

\* tkfmtools.py:20-23  recruitment_query is entered: sync_playwright().__enter__
\* and chromium.launch; an error leaves through the with statement
Launch ==
    /\ pc = "query"
    /\ query_calls' = Append(query_calls, extracted_tags)
    /\ \E outcome \in {"ok", "error"} :
          IF outcome = "ok"
          THEN /\ playwright' = "running"
               /\ browser' = "open"
               /\ pending' = pending
               /\ error_at' = error_at
               /\ pc' = "new_context"
          ELSE /\ playwright' = "running"
               /\ browser' = browser
               /\ pending' = "error"
               /\ error_at' = "launch"
               /\ pc' = "exit"
    /\ UNCHANGED <<loader, trace, extractor, status, context, page, clicked, timeout_step,
                   pdf_bytes_io, sent>>

\* tkfmtools.py:24  browser.new_context, before the try statement
NewContext ==
    /\ pc = "new_context"
    /\ \E outcome \in {"ok", "error"} :
          IF outcome = "ok"
          THEN /\ context' = "open"
               /\ pending' = pending
               /\ error_at' = error_at
               /\ pc' = "new_page"
          ELSE /\ context' = context
               /\ pending' = "error"
               /\ error_at' = "new_context"
               /\ pc' = "exit"
    /\ UNCHANGED <<loader, trace, extractor, status, playwright, browser, page, clicked,
                   timeout_step, query_calls, pdf_bytes_io, sent>>

\* tkfmtools.py:25-28  context.new_page, before the try statement
NewPage ==
    /\ pc = "new_page"
    /\ \E outcome \in {"ok", "error"} :
          IF outcome = "ok"
          THEN /\ page' = "open"
               /\ pending' = pending
               /\ error_at' = error_at
               /\ pc' = "goto"
          ELSE /\ page' = page
               /\ pending' = "error"
               /\ error_at' = "new_page"
               /\ pc' = "exit"
    /\ UNCHANGED <<loader, trace, extractor, status, playwright, browser, context, clicked,
                   timeout_step, query_calls, pdf_bytes_io, sent>>

\* tkfmtools.py:83-87  how the try block is left on a step's outcome: the except
\* clause turns PlaywrightTimeoutError into `return None`, any other error stays
\* raised, and both go through the finally block
LeaveTry(outcome) == IF outcome = "timeout" THEN "none" ELSE "error"

\* a step inside the try block that clicks nothing and builds nothing
ProtocolStep(step, next) ==
    /\ \E outcome \in Outcomes :
          IF outcome = "ok"
          THEN /\ pc' = next
               /\ UNCHANGED <<pending, timeout_step, error_at>>
          ELSE /\ pc' = "close_page"
               /\ pending' = LeaveTry(outcome)
               /\ timeout_step' = IF outcome = "timeout" THEN step ELSE timeout_step
               /\ error_at' = IF outcome = "error" THEN "protocol" ELSE error_at
    /\ trace' = Append(trace, step)
    /\ UNCHANGED <<loader, extractor, status, session, clicked, query_calls, pdf_bytes_io, sent>>

\* tkfmtools.py:33  step 1
Goto ==
    /\ pc = "goto"
    /\ ProtocolStep(1, "wait_ready")
\* tkfmtools.py:37  step 2, the readiness probe
WaitReady ==
    /\ pc = "wait_ready"
    /\ ProtocolStep(2, "open_settings")
\* tkfmtools.py:42  step 3
OpenSettings ==
    /\ pc = "open_settings"
    /\ ProtocolStep(3, "switch_mode")
\* tkfmtools.py:46  step 4
SwitchMode ==
    /\ pc = "switch_mode"
    /\ ProtocolStep(4, "close_settings")
\* tkfmtools.py:50  step 5
CloseSettings ==
    /\ pc = "close_settings"
    /\ ProtocolStep(5, "click")

\* a loop that walks the tags from the last to the first
NextTag_FromEnd(tags, done) == tags[Len(tags) - Len(done)]

\* tkfmtools.py:53  `for tag in tags`: the tag of the next pass
NextTag(tags, done) == tags[Len(done) + 1]

\* tkfmtools.py:53-55  step 6, one pass of the for loop
ClickTag ==
    /\ pc = "click"
    /\ LET tags == query_calls[Len(query_calls)]
           tag == NextTag(tags, clicked)
       IN  \E outcome \in Outcomes :
              IF outcome = "ok"
              THEN /\ clicked' = Append(clicked, tag)
                   /\ pc' = IF Len(clicked) + 1 = Len(tags) THEN "wait_images" ELSE "click"
                   /\ UNCHANGED <<pending, timeout_step, error_at>>
              ELSE /\ clicked' = clicked
                   /\ pc' = "close_page"
                   /\ pending' = LeaveTry(outcome)
                   /\ timeout_step' = IF outcome = "timeout" THEN 6 ELSE timeout_step
                   /\ error_at' = IF outcome = "error" THEN "protocol" ELSE error_at
    /\ trace' = Append(trace, 6)
    /\ UNCHANGED <<loader, extractor, status, session, query_calls, pdf_bytes_io, sent>>

\* tkfmtools.py:59  step 7
WaitImages ==
    /\ pc = "wait_images"
    /\ ProtocolStep(7, "screenshot")
\* tkfmtools.py:63  step 8
Screenshot ==
    /\ pc = "screenshot"
    /\ ProtocolStep(8, "convert")

\* io.BytesIO.seek
seek(buffer, position) == [buffer EXCEPT !.pos = position]

\* pil_image.save(pdf_bytes_io, 'PDF'): the document of the tags clicked, written
\* into the buffer, which leaves the position at its end
save(tags) == [kind |-> "doc", content |-> tags, pos |-> DocLen]

\* tkfmtools.py:67-81  steps 9 and 10: convert, save, seek(0), return
Convert ==
    /\ pc = "convert"
    /\ pdf_bytes_io' = seek(save(clicked), 0)
    /\ pending' = "doc"
    /\ trace' = Append(trace, 9)
    /\ pc' = "close_page"
    /\ UNCHANGED <<loader, extractor, status, session, clicked, timeout_step, error_at,
                   query_calls, sent>>

\* tkfmtools.py:90  finally: page.close(); its error replaces what was pending
\* and skips the closes after it
ClosePage ==
    /\ pc = "close_page"
    /\ \E outcome \in {"ok", "error"} :
          IF outcome = "ok"
          THEN /\ page' = "closed"
               /\ pending' = pending
               /\ error_at' = error_at
               /\ pc' = "close_context"
          ELSE /\ page' = page
               /\ pending' = "error"
               /\ error_at' = "close_page"
               /\ pc' = "exit"
    /\ UNCHANGED <<loader, trace, extractor, status, playwright, browser, context, clicked,
                   timeout_step, query_calls, pdf_bytes_io, sent>>

\* tkfmtools.py:91  context.close()
CloseContext ==
    /\ pc = "close_context"
    /\ \E outcome \in {"ok", "error"} :
          IF outcome = "ok"
          THEN /\ context' = "closed"
               /\ pending' = pending
               /\ error_at' = error_at
               /\ pc' = "close_browser"
          ELSE /\ context' = context
               /\ pending' = "error"
               /\ error_at' = "close_context"
               /\ pc' = "exit"
    /\ UNCHANGED <<loader, trace, extractor, status, playwright, browser, page, clicked,
                   timeout_step, query_calls, pdf_bytes_io, sent>>

\* tkfmtools.py:92  browser.close()
CloseBrowser ==
    /\ pc = "close_browser"
    /\ \E outcome \in {"ok", "error"} :
          IF outcome = "ok"
          THEN /\ browser' = "closed"
               /\ pending' = pending
               /\ error_at' = error_at
          ELSE /\ browser' = browser
               /\ pending' = "error"
               /\ error_at' = "close_browser"
    /\ pc' = "exit"
    /\ UNCHANGED <<loader, trace, extractor, status, playwright, context, page, clicked,
                   timeout_step, query_calls, pdf_bytes_io, sent>>

\* tkfmtools.py:20  the with statement is left: sync_playwright().__exit__, and
\* control is back in handle_image (main.py:101) with the document, with None,
\* or with the error raised
QueryExit ==
    /\ pc = "exit"
    /\ playwright' = "stopped"
    /\ pdf_bytes_io' = IF pending = "doc" THEN pdf_bytes_io
                       ELSE IF pending = "none" THEN None ELSE Unset
    /\ pc' = IF pending = "error" THEN "raised" ELSE "queried"
    /\ UNCHANGED <<loader, error_at, trace, extractor, status, browser, context, page, clicked, pending,
                   timeout_step, query_calls, sent>>

\* the None branch without its return statement
AfterQuery_NoReturn ==
    /\ pc = "queried"
    /\ status' = StatusSending
    /\ pc' = "deliver"
    /\ UNCHANGED <<loader, extractor, query, pdf_bytes_io, sent>>

\* main.py:103-109
AfterQuery ==
    /\ pc = "queried"
    /\ IF pdf_bytes_io.kind = "none"
       THEN /\ status' = StatusQueryFailed
            /\ pc' = "done"
       ELSE /\ status' = StatusSending
            /\ pc' = "deliver"
    /\ UNCHANGED <<loader, extractor, query, pdf_bytes_io, sent>>

\* main.py:114-119  reply_document reads the buffer to its end and succeeds
Deliver ==
    /\ pc = "deliver"
    /\ sent' = Append(sent, pdf_bytes_io)
    /\ pdf_bytes_io' = seek(pdf_bytes_io, DocLen)
    /\ pc' = "delete"
    /\ UNCHANGED <<loader, extractor, status, query>>

\* a retry loop that gives up after MaxTimedOut timeouts
DeliverTimedOut_Bounded ==
    /\ pc = "deliver"
    /\ Len(sent) < MaxTimedOut
    /\ sent' = Append(sent, pdf_bytes_io)
    /\ \E read \in 0..DocLen :
          pdf_bytes_io' = seek(pdf_bytes_io, read)
    /\ pc' = "timed_out"
    /\ UNCHANGED <<loader, extractor, status, query>>

\* main.py:114-119  reply_document raises TimedOut after reading some of the
\* buffer. `while True` puts no limit on the attempts; `sent` records the
\* first MaxTimedOut of them that timed out.
DeliverTimedOut ==
    /\ pc = "deliver"
    /\ sent' = IF Len(sent) < MaxTimedOut THEN Append(sent, pdf_bytes_io) ELSE sent
    /\ \E read \in 0..DocLen :
          pdf_bytes_io' = seek(pdf_bytes_io, read)
    /\ pc' = "timed_out"
    /\ UNCHANGED <<loader, extractor, status, query>>

\* an except clause that does not rewind the buffer
Rewind_NoSeek ==
    /\ pc = "timed_out"
    /\ pc' = "deliver"
    /\ UNCHANGED <<loader, extractor, status, query, pdf_bytes_io, sent>>

\* main.py:120-121  the except clause rewinds the buffer and the loop tries
\* again at once
Rewind ==
    /\ pc = "timed_out"
    /\ pdf_bytes_io' = seek(pdf_bytes_io, 0)
    /\ pc' = "deliver"
    /\ UNCHANGED <<loader, extractor, status, query, sent>>

\* main.py:125-128  delete_message
DeleteStatus ==
    /\ pc = "delete"
    /\ status' = "deleted"
    /\ pc' = "done"
    /\ UNCHANGED <<loader, extractor, query, pdf_bytes_io, sent>>

Next ==
    \/ SendStatus \/ Download \/ Extract \/ Gate
    \/ Launch \/ NewContext \/ NewPage
    \/ Goto \/ WaitReady \/ OpenSettings \/ SwitchMode \/ CloseSettings
    \/ ClickTag \/ WaitImages \/ Screenshot \/ Convert
    \/ ClosePage \/ CloseContext \/ CloseBrowser \/ QueryExit
    \/ AfterQuery \/ Deliver \/ DeliverTimedOut \/ Rewind \/ DeleteStatus

Spec == Init /\ [][Next]_vars

\* a run on the example screen, on any of the disks
InitFair == Init /\ results = ExampleSpans

\* every step of the run is taken in the end, and reply_document does not
\* time out forever
SpecFair == InitFair /\ [][Next]_vars /\ WF_vars(Next) /\ SF_vars(Deliver)

-----------------------------------------------------------------------------
(* image_ocr.py: yaml_to_dict called on its own, one call after the other *)

\* most yaml_to_dict calls in a row
MaxLoads == 2

\* the directory part of the path: one missing level, nested levels, none
NestedDir == "./data/mappings"
Directories == {DataDir, NestedDir, ""}

\* a file holding the empty string
EmptyScalarFile == <<Scalar("")>>

\* the disks of a handle_image run, the missing file in an existing directory,
\* and files in a directory that is read-only
LoadDisks ==
    Disks \cup
    {Disk(TRUE, TRUE, NoFile),
     Disk(TRUE, FALSE, File(YAML_TEMPLATE)),
     Disk(TRUE, FALSE, File(CorruptFile)),
     Disk(TRUE, TRUE, File(EmptyScalarFile))}

\* a path without directory part lies in the working directory, which exists
InitLoad ==
    /\ file_path \in Directories
    /\ fs \in {disk \in LoadDisks : file_path = "" => disk.dir}
    /\ results = <<>>
    /\ Idle
    /\ NoLoaders
    /\ pc = "load"

\* image_ocr.py:42-69  one call of yaml_to_dict(file_path)
LoadCall ==
    /\ pc = "load"
    /\ Len(loads) < MaxLoads
    /\ LET r == yaml_to_dict(file_path, fs)
       IN  /\ loads' = Append(loads, [before |-> fs, ret |-> r.ret, after |-> r.disk])
           /\ fs' = r.disk
    /\ UNCHANGED <<results, word_mappings, extracted_tags, pc, status, query,
                   pdf_bytes_io, sent, file_path, lpc, lret>>

NextLoad == LoadCall

SpecLoad == InitLoad /\ [][NextLoad]_vars

-----------------------------------------------------------------------------
(* main.py:84-88, 156-157: handle_image is registered with block=False and
   each run calls img_to_tags in a worker thread of its own, so the calls of
   yaml_to_dict of several runs interleave statement by statement *)

\* the number of runs that extract at the same time
NumLoaders == 3

Loaders == 1..NumLoaders

\* the correction table is absent when the runs start
AbsentDisks == {Disk(dir, writable, NoFile) : dir \in BOOLEAN, writable \in BOOLEAN}

InitConcurrent ==
    /\ file_path = DataDir
    /\ fs \in AbsentDisks
    /\ results = <<>>
    /\ Idle
    /\ pc = "concurrent"
    /\ lpc = [t \in Loaders |-> "isfile"]
    /\ lret = [t \in Loaders |-> NotLoaded]

\* the except clause of yaml_to_dict in thread t
Caught(t) ==
    /\ lpc' = [lpc EXCEPT ![t] = "done"]
    /\ lret' = [lret EXCEPT ![t] = PyDict(EmptyDict)]

\* image_ocr.py:52  if not os.path.isfile(file_path)
IsFile(t) ==
    /\ lpc[t] = "isfile"
    /\ lpc' = [lpc EXCEPT ![t] = IF fs.file.exists THEN "open_r" ELSE "makedirs"]
    /\ UNCHANGED <<extractor, pc, status, query, pdf_bytes_io, sent, file_path, loads, lret>>

\* image_ocr.py:54-56  os.makedirs(directory, exist_ok=True)
MakeDirs(t) ==
    /\ lpc[t] = "makedirs"
    /\ LET md == makedirs(file_path, fs)
       IN  /\ fs' = [fs EXCEPT !.dir = md.dir]
           /\ IF md.out = "raise" THEN Caught(t)
              ELSE /\ lpc' = [lpc EXCEPT ![t] = "open_w"]
                   /\ UNCHANGED lret
    /\ UNCHANGED <<results, word_mappings, extracted_tags, pc, status, query,
                   pdf_bytes_io, sent, file_path, loads>>

\* image_ocr.py:59  open(file_path, 'w'): creates the file, or truncates the
\* file another thread created
OpenWrite(t) ==
    /\ lpc[t] = "open_w"
    /\ IF fs.writable
       THEN /\ fs' = [fs EXCEPT !.file = [exists |-> TRUE,
                                          readable |-> IF fs.file.exists THEN fs.file.readable ELSE TRUE,
                                          text |-> <<>>]]
            /\ lpc' = [lpc EXCEPT ![t] = "write"]
            /\ UNCHANGED lret
       ELSE /\ Caught(t)
            /\ UNCHANGED fs
    /\ UNCHANGED <<results, word_mappings, extracted_tags, pc, status, query,
                   pdf_bytes_io, sent, file_path, loads>>

\* image_ocr.py:60-61  f.write(YAML_TEMPLATE) and the close at the end of the
\* with block, which puts the buffered template into the file
WriteTemplate(t) ==
    /\ lpc[t] = "write"
    /\ fs' = [fs EXCEPT !.file.text = YAML_TEMPLATE]
    /\ lpc' = [lpc EXCEPT ![t] = "open_r"]
    /\ UNCHANGED <<results, word_mappings, extracted_tags, pc, status, query,
                   pdf_bytes_io, sent, file_path, loads, lret>>

\* image_ocr.py:64-65  open(file_path, 'r') and yaml.safe_load(f) or {}
ReadFile(t) ==
    /\ lpc[t] = "open_r"
    /\ LET loaded == safe_load(fs.file.text)
       IN  IF ~fs.file.exists \/ ~fs.file.readable \/ loaded.kind = "error"
           THEN Caught(t)
           ELSE /\ lpc' = [lpc EXCEPT ![t] = "done"]
                /\ lret' = [lret EXCEPT ![t] = IF Truthy(loaded) THEN loaded
                                               ELSE PyDict(EmptyDict)]
    /\ UNCHANGED <<extractor, pc, status, query, pdf_bytes_io, sent, file_path, loads>>

NextConcurrent ==
    \/ \E t \in Loaders : IsFile(t)
    \/ \E t \in Loaders : MakeDirs(t)
    \/ \E t \in Loaders : OpenWrite(t)
    \/ \E t \in Loaders : WriteTemplate(t)
    \/ \E t \in Loaders : ReadFile(t)

SpecConcurrent == InitConcurrent /\ [][NextConcurrent]_vars

-----------------------------------------------------------------------------
(* Properties of the extractor *)

\* the call returned after it found the anchor
ReturnedWithAnchor ==
    /\ pc = "returned"
    /\ \E i \in DOMAIN results : results[i] = Anchor

\* the first position of the anchor in the raw words
FirstAnchor == CHOOSE a \in DOMAIN results :
                  /\ results[a] = Anchor
                  /\ \A j \in DOMAIN results : results[j] = Anchor => a <= j

\* the positions of the window: the anchor at position a and at most 7 words after it
WindowPositions(a) == {p \in DOMAIN results : a <= p /\ p <= a + 7}

\* the word at position p after correction
Corrected(p) ==
    IF results[p] \in DOMAIN word_mappings.map
    THEN word_mappings.map[results[p]] ELSE results[p]

SeedDict == [w \in {"Soidier"} |-> "Soldier"]

ExampleTags == <<"MediumBody", "Wind", "Soldier", "Demihuman", "Defense">>

\* C1: when the words contain the anchor, img_to_tags returns the corrected words
\* of the window (the first anchor and at most 7 words after it) that are in the
\* vocabulary, one per kept position, in input order, duplicates included; the
\* spans of the example with the corrections {土兵: 士兵} give the five tags
\* 中體型, 風屬性, 士兵, 亞人, 防禦.
C1_ExtractionResult ==
    ReturnedWithAnchor =>
        LET kept == {p \in WindowPositions(FirstAnchor) : Corrected(p) \in TAGS}
        IN  /\ Len(extracted_tags) = Cardinality(kept)
            /\ \A p \in kept :
                  extracted_tags[Cardinality({q \in kept : q <= p})] = Corrected(p)
            /\ (results = ExampleSpans /\ word_mappings.map = SeedDict)
                  => extracted_tags = ExampleTags

C1_Witness ==
    /\ ReturnedWithAnchor
    /\ results = ExampleSpans
    /\ word_mappings.map = SeedDict
    /\ extracted_tags = ExampleTags

\* what may follow a full window in another OCR result: nothing, one word, two words
AfterWindow == {<<>>} \cup [1..1 -> ExtractWords] \cup [1..2 -> ExtractWords]

\* C2: the window is the first anchor and at most 7 words after it; with a full
\* window, whatever words follow it (valid tags included, at offset 8, 9 or later
\* from the anchor) the extraction gives the same tags, and never more tags than
\* the window has words.
C2_WindowBound ==
    ReturnedWithAnchor =>
        LET a == FirstAnchor
        IN  /\ Len(extracted_tags) <= 8
            /\ Len(results) >= a + 7 =>
                  \A after \in AfterWindow :
                      img_to_tags(SubSeq(results, 1, a + 7) \o after, fs).tags = extracted_tags

C2_Witness ==
    /\ ReturnedWithAnchor
    /\ Len(results) >= FirstAnchor + 9
    /\ results[FirstAnchor + 9] = "Soldier"
    /\ word_mappings.map = SeedDict
    /\ \A i \in DOMAIN extracted_tags : extracted_tags[i] # "Soldier"

\* how many times tag occurs in the returned list
Occurrences(tag) == Cardinality({i \in DOMAIN extracted_tags : extracted_tags[i] = tag})

\* C3: a window word with a correction entry counts as its corrected value and
\* never as itself: each tag occurs in the output as many times as the window
\* has words whose corrected value is that tag, so a valid tag that the table
\* corrects to another tag is emitted as that other tag, not as itself.
C3_CorrectionPrecedence ==
    ReturnedWithAnchor =>
        LET window == WindowPositions(FirstAnchor)
            seen == {results[p] : p \in window} \cup {Corrected(p) : p \in window}
                        \cup {extracted_tags[i] : i \in DOMAIN extracted_tags}
        IN  \A tag \in seen \cap TAGS :
                Occurrences(tag) = Cardinality({p \in window : Corrected(p) = tag})

\* the anchor is corrected to 士兵 and emitted as such; the two 士兵 after it are
\* emitted as 亞人
C3_Witness ==
    /\ ReturnedWithAnchor
    /\ fs.file.text = MixedFile
    /\ results = <<Anchor, "Soldier", "Soldier">>
    /\ word_mappings.map["Soldier"] = "Demihuman"
    /\ extracted_tags = <<"Soldier", "Demihuman", "Demihuman">>

\* C4: when the raw words do not contain the anchor, img_to_tags returns the
\* empty list, whatever the words and whatever the correction table maps.
C4_AnchorAbsence ==
    (pc # "call" /\ \A i \in DOMAIN results : results[i] # Anchor) =>
        /\ pc = "returned"
        /\ extracted_tags = <<>>

C4_Witness ==
    /\ pc = "returned"
    /\ \A i \in DOMAIN results : results[i] # Anchor
    /\ \E i \in DOMAIN results : results[i] = "Soldier"
    /\ \E i \in DOMAIN results : results[i] = "Soidier"
    /\ fs.file.text = MixedFile
    /\ extracted_tags = <<>>

-----------------------------------------------------------------------------
(* Properties of the query engine and of handle_image *)

\* recruitment_query has been left, by return or by an exception
QueryLeft == playwright = "stopped"

SessionClosed == page = "closed" /\ context = "closed" /\ browser = "closed"

\* C5: a timeout raised by one of the protocol steps 1-7 is converted to the
\* result None, not raised to the caller, and the page, the context and the
\* browser are closed when the call is left.
C5_TimeoutConverted ==
    (QueryLeft /\ timeout_step \in 1..7) =>
        /\ pc # "raised"
        /\ pdf_bytes_io = None
        /\ SessionClosed

\* C6: whenever recruitment_query is left after it launched a browser, the
\* page, the context and the browser have all been closed.
C6_SessionTornDown ==
    (QueryLeft /\ browser # "none") => SessionClosed

\* img_to_tags has returned its list to handle_image
Extracted == extracted_tags # NoTags

\* C7: recruitment_query is only ever called with exactly 5 tags; when the
\* extracted list does not have exactly 5 elements the run ends with the
\* extraction-failure status and no call of recruitment_query.
C7_PreQueryGate ==
    /\ \A i \in DOMAIN query_calls : Len(query_calls[i]) = 5
    /\ (Extracted /\ Len(extracted_tags) # 5 /\ pc # "gate") =>
          /\ pc = "done"
          /\ status = StatusExtractionFailed
          /\ query_calls = <<>>
          /\ playwright = "none"

C7_Witness ==
    /\ pc = "done"
    /\ Len(extracted_tags) = 6
    /\ status = StatusExtractionFailed
    /\ query_calls = <<>>

\* C8: one run calls recruitment_query at most once, and every delivery
\* attempt, the first and each retry after a TimedOut, is given the one document
\* the query produced, with its read position at 0.
C8_RetrySameDocument ==
    /\ Len(query_calls) <= 1
    /\ \A i \in DOMAIN sent :
          /\ sent[i].kind = "doc"
          /\ sent[i].pos = 0
          /\ sent[i].content = query_calls[1]
          /\ sent[i].content = sent[1].content

C8_Witness ==
    /\ pc = "done"
    /\ Len(sent) = 3
    /\ Len(query_calls) = 1
    /\ status = "deleted"

\* C9: when recruitment_query returned None, handle_image ends with the
\* query-failure text as status, a text different from the extraction-failure
\* text; no document was sent, the status message is not deleted and nothing
\* more happens.
C9_TimeoutTerminal ==
    (pdf_bytes_io = None /\ pc # "queried") =>
        /\ pc = "done"
        /\ status = StatusQueryFailed
        /\ status # StatusExtractionFailed
        /\ status # "deleted"
        /\ sent = <<>>
        /\ ~ENABLED Next

C9_Witness ==
    /\ pdf_bytes_io = None
    /\ pc = "done"
    /\ timeout_step = 2
    /\ status = StatusQueryFailed
    /\ sent = <<>>

\* C10: yaml_to_dict only ever returns a mapping and img_to_tags never raises,
\* whatever the state of the correction resource.
C10_ExtractionNeverRaises ==
    /\ word_mappings.kind \in {"notloaded", "dict"}
    /\ ~(pc = "raised" /\ query_calls = <<>>)

-----------------------------------------------------------------------------
(* Properties of the correction-table loader *)

\* the call met no file at its path, in a place where files can be created
MetMissing(load) == ~load.before.file.exists /\ load.before.writable

\* C11: a yaml_to_dict call on a path that does not exist (its directory
\* missing, nested and missing, existing, or the path without directory part)
\* creates the directory and the file with the template and returns {土兵: 士兵};
\* the next load of the path returns the same mapping and rewrites nothing.
C11_MissingResourceCreated ==
    \A i \in DOMAIN loads :
        MetMissing(loads[i]) =>
            /\ loads[i].ret = PyDict(SeedDict)
            /\ loads[i].after.dir
            /\ loads[i].after.file = File(YAML_TEMPLATE)
            /\ (i + 1) \in DOMAIN loads =>
                  /\ loads[i + 1].ret = PyDict(SeedDict)
                  /\ loads[i + 1].after = loads[i + 1].before

\* C12: on an existing resource that cannot be read or cannot be parsed,
\* yaml_to_dict returns {} and leaves the resource as it was; on a resource that
\* parses to nothing (empty, or comments only) it returns {}.
C12_CorruptFallback ==
    \A i \in DOMAIN loads :
        LET load == loads[i]
            file == load.before.file
        IN  /\ (file.exists /\ (~file.readable \/ file.text = CorruptFile)) =>
                  /\ load.ret = PyDict(EmptyDict)
                  /\ load.after = load.before
            /\ (file.exists /\ file.readable /\ file.text \in {<<>>, CommentsOnlyFile}) =>
                  load.ret = PyDict(EmptyDict)

C12_Witness ==
    /\ Len(loads) = 2
    /\ fs.file = File(CorruptFile)
    /\ loads[1].before.file = File(CorruptFile)
    /\ loads[2].ret = PyDict(EmptyDict)
    /\ loads[2].after = loads[1].before

-----------------------------------------------------------------------------
(* Properties of the vocabulary *)

\* the categories cover the vocabulary and no two of them share a tag
SevenDisjointCategories ==
    /\ Cardinality(Categories) = 7
    /\ UNION Categories = TAGS
    /\ \A c, d \in Categories : c # d => c \cap d = {}

\* every tag the extractor has returned is a value of the vocabulary
TagsFromVocabulary ==
    Extracted => \A i \in DOMAIN extracted_tags : extracted_tags[i] \in TAGS

\* C13 as stated: the vocabulary the filter uses has exactly 30 values in 7
\* disjoint categories.
C13_ThirtyValues ==
    /\ Cardinality(TAGS) = 30
    /\ SevenDisjointCategories
    /\ TagsFromVocabulary

\* C13 as amended: the vocabulary the filter uses is a closed set of exactly 33
\* values in 7 disjoint categories (5, 5, 3, 2, 3, 3 and 12 values), the same in
\* every state, and the extractor returns nothing outside it.
C13_Vocabulary ==
    /\ Cardinality(TAGS) = 33
    /\ SevenDisjointCategories
    /\ {Cardinality(c) : c \in Categories} = {5, 3, 2, 12}
    /\ Cardinality(TagsOther) = 12
    /\ TagsFromVocabulary

C13_Witness ==
    /\ pc = "gate"
    /\ results = ExampleSpans
    /\ extracted_tags = ExampleTags
    /\ \A i \in DOMAIN extracted_tags : \E c \in Categories : extracted_tags[i] \in c

-----------------------------------------------------------------------------
(* Properties of the protocol of recruitment_query *)

\* the steps of a complete query with these tags: navigate (1), readiness probe
\* (2), open settings (3), switch mode (4), close settings (5), one click per
\* tag (6), wait for images (7), capture (8), convert (9)
FullProtocol(tags) == <<1, 2, 3, 4, 5>> \o [i \in 1..Len(tags) |-> 6] \o <<7, 8, 9>>

IsPrefix(s, t) == Len(s) <= Len(t) /\ s = SubSeq(t, 1, Len(s))

ClicksStarted == Cardinality({i \in DOMAIN trace : trace[i] = 6})

\* C14: the steps of one query start in the listed order, each after the one
\* before it, and the clicks are made one at a time on the tags of the input in
\* input order, one click per element.
C14_StepOrder ==
    query_calls # <<>> =>
        LET tags == query_calls[1]
        IN  /\ IsPrefix(trace, FullProtocol(tags))
            /\ IsPrefix(clicked, tags)
            /\ Len(clicked) <= ClicksStarted
            /\ ClicksStarted <= Len(clicked) + 1
            /\ (trace # <<>> /\ trace[Len(trace)] > 6) => clicked = tags

C14_Witness ==
    /\ pending = "doc"
    /\ query_calls = <<ExampleTags>>
    /\ clicked = ExampleTags
    /\ trace = FullProtocol(ExampleTags)

\* a document comes only from a complete protocol, and a step that timed out is
\* the last step started
OnlyCompleteResults ==
    /\ (pdf_bytes_io.kind = "doc" \/ pending = "doc") =>
          /\ timeout_step = 0
          /\ clicked = query_calls[1]
          /\ trace = FullProtocol(query_calls[1])
          /\ pdf_bytes_io.content = query_calls[1]
    /\ timeout_step # 0 =>
          /\ trace[Len(trace)] = timeout_step
          /\ timeout_step = 6 => Len(clicked) = ClicksStarted - 1
          /\ timeout_step <= 6 => pdf_bytes_io.kind = "unset" \/ pdf_bytes_io = None

\* C15: recruitment_query returns a document only if every step completed;
\* after a step timed out no later step runs, only the cleanup, and the result
\* of the call is the timeout failure None.
C15_NoPartialResults ==
    /\ OnlyCompleteResults
    /\ (timeout_step # 0 /\ QueryLeft) =>
          /\ pc # "raised"
          /\ pdf_bytes_io = None

\* an error that is no timeout leaves recruitment_query as an exception, and
\* handle_image does not show the query-failure text for it
ErrorsNotConverted ==
    (error_at # "none" /\ QueryLeft) =>
        /\ pc = "raised"
        /\ pdf_bytes_io # None
        /\ status = StatusQuerying

\* nothing the call opened is still open
NothingLeftOpen == browser # "open" /\ context # "open" /\ page # "open"

\* C16: an error of the browser session that is no timeout is not turned into
\* None but leaves recruitment_query as an exception, after the cleanup closed
\* the session; handle_image never shows the query-timeout text for it.
C16_ErrorsPropagate ==
    /\ ErrorsNotConverted
    /\ (error_at # "none" /\ QueryLeft) => NothingLeftOpen

\* C17: the delivery loop has no maximum attempt count: after every TimedOut
\* the next attempt follows, and another TimedOut is always possible; the
\* status message is deleted only after an attempt that did not time out; and
\* when reply_document does not time out forever, a run that started delivering
\* ends with the status message deleted.
C17_UnboundedRetry ==
    /\ [](pc = "deliver" => ENABLED DeliverTimedOut)
    /\ [](pc = "timed_out" => status = StatusSending /\ ENABLED Rewind)
    /\ [][pc' = "delete" => Deliver]_vars
    /\ [][status' = "deleted" => pc \in {"delete", "done"}]_vars
    /\ (pc = "deliver") ~> (pc = "done" /\ status = "deleted")

C17_Witness ==
    /\ pc = "delete"
    /\ Len(sent) = MaxTimedOut + 1
    /\ status = StatusSending

\* C18: when several calls load the absent correction table of a writable
\* disk at the same time, every call that has returned obtained the seeded
\* mapping, whatever the interleaving of their steps.
C18_ConcurrentLoads ==
    fs.writable =>
        \A t \in DOMAIN lpc : lpc[t] = "done" => lret[t] = PyDict(SeedDict)

\* C19: a call of img_to_tags whose words do not hold the anchor leaves the
\* disk as it was, a missing file and directory included, and loads no
\* correction table; a call whose words hold the anchor loads the table, and
\* creates the missing file on a writable disk.
C19_AnchorAbsentUntouched ==
    [][pc = "extract" =>
          IF index(results, Anchor) = 0
          THEN fs' = fs /\ word_mappings' = NotLoaded
          ELSE /\ word_mappings' # NotLoaded
               /\ (~fs.file.exists /\ fs.writable) =>
                      fs'.dir /\ fs'.file = File(YAML_TEMPLATE)]_vars

C19_Witness ==
    /\ pc = "done"
    /\ index(results, Anchor) = 0
    /\ ~fs.dir /\ ~fs.file.exists /\ fs.writable
    /\ word_mappings = NotLoaded
    /\ status = StatusExtractionFailed

\* the place of a status in the lifecycle of the status message
Rank(s) ==
    IF s = "none" THEN 0
    ELSE IF s = StatusDownloading THEN 1
    ELSE IF s = StatusExtracting THEN 2
    ELSE IF s = StatusQuerying THEN 3
    ELSE IF s = StatusSending THEN 4
    ELSE 5

IsTerminal(s) == s \in {StatusExtractionFailed, StatusQueryFailed, "deleted"}

\* the status only moves forward, and a terminal status stays
ForwardOnly == [][/\ Rank(status') >= Rank(status)
                  /\ IsTerminal(status) => status' = status]_vars

\* the status message is deleted only after a delivery attempt succeeded
DeletedAfterDelivery ==
    [](status = "deleted" =>
          /\ pc = "done"
          /\ sent # <<>>
          /\ pdf_bytes_io = seek(sent[Len(sent)], DocLen))

\* C20 as stated: the status only moves forward, is deleted only after a
\* successful delivery, and every run that ends, by a return or by an error
\* raised in the extractor or the query engine, leaves a terminal status.
C20_EveryEndTerminal ==
    /\ ForwardOnly
    /\ DeletedAfterDelivery
    /\ [](pc \in {"done", "raised"} => IsTerminal(status))

\* C20 amended: the status only moves forward, is deleted only after a
\* successful delivery, and every run that returns leaves a terminal status;
\* a run ended by an error raised in the extractor keeps the status 2/4, and
\* a run ended by an error raised in the query engine keeps the status 3/4.
C20_StatusLifecycle ==
    /\ ForwardOnly
    /\ DeletedAfterDelivery
    /\ [](pc = "done" => IsTerminal(status))
    /\ [](pc = "raised" =>
             status = IF query_calls = <<>> THEN StatusExtracting ELSE StatusQuerying)

C20_Witness ==
    /\ pc = "raised"
    /\ status = StatusQuerying
    /\ error_at = "protocol"
    /\ SessionClosed

====
